---- MODULE Spec2Model ----
(***************************************************************************)
(* Model of the cat-box sprite / physics core and its callers:             *)
(*   src/src/objects/sprite.rs  (Sprite, SpriteCollection)                 *)
(*   src/src/sprite/physics.rs  (collided, check_for_collision, ...)       *)
(*   src/src/vec2.rs, src/src/math/vec3.rs  (Direction, Vec2, Vec3, ...)   *)
(*   src/src/lib.rs  (Game::run, Game::terminate)                          *)
(*   src/src/objects/button.rs  (Button::clicked)                          *)
(* The rectangle is sdl2::rect::Rect: an origin (x, y) and a size (w, h)   *)
(* with w, h >= 1.  The integer vector operators and the collision checks  *)
(* go through the i32 operators below (overflow panics or wraps, by        *)
(* build); the movers work on origins far inside the i32 range and sdl2's  *)
(* position range.  f32 values are records.                                *)
(***************************************************************************)
EXTENDS Integers, Sequences, FiniteSets, TLC

VARIABLES sprites, list, ret, game, button

vars == <<sprites, list, ret, game, button>>

(* ---------------------------- bounds ----------------------------------- *)

\* rectangle origins are kept inside -MaxCoord..MaxCoord on both axes
MaxCoord == 2

\* largest number of sprites held by the collection
MaxLen == 3

\* largest number of frames drawn by one call of Game::run
MaxFrames == 3

\* largest number of calls of Game::run on one Game
MaxRuns == 3

\* largest number of calls of Button::clicked on one Button
MaxClicks == 3

Coords == (0 - MaxCoord)..MaxCoord

\* (width, height) of the images a sprite is loaded from
Images == {<<1, 1>>, <<2, 3>>, <<3, 2>>}

\* deltas handed to translate
Deltas == {<<1, 0>>, <<0, 1>>, <<-1, -1>>, <<3, -4>>}

\* points handed to check_for_collision_with_point
Points == {<<0, 0>>, <<2, -1>>}

\* centers of the sprites pushed into the collection
PushAt == {<<0, 0>>, <<2, 0>>}

\* points handed to set_position
SetPoints == {<<0, 0>>, <<1, 1>>, <<-1, 2>>, <<2, -1>>}

\* angles (degrees of clockwise rotation) handed to set_angle
Angles == {0, 45, 90}

\* amounts handed to up, down, left and right
Vels == {-1, 1, 2}

(* ------------------------------- i32 ----------------------------------- *)

\* i32::MAX
I32_MAX == 2147483647

\* i32::MIN
I32_MIN == -I32_MAX - 1

\* the two ways the crate can be built: with overflow checks (the debug
\* profile), where an i32 overflow panics, and without (the release
\* profile), where the result is reduced modulo 2^32
Builds == {"debug", "release"}

\* a + b does not fit in an i32
add_overflows(a, b) ==
    \/ b > 0 /\ a > I32_MAX - b
    \/ b < 0 /\ a < I32_MIN - b

\* a + b, reduced modulo 2^32 into the i32 range
i32_add(a, b) ==
    IF b > 0 /\ a > I32_MAX - b THEN (a + I32_MIN) + (b + I32_MIN)
    ELSE IF b < 0 /\ a < I32_MIN - b THEN (a - I32_MIN) + (b - I32_MIN)
    ELSE a + b

\* a - b does not fit in an i32
sub_overflows(a, b) ==
    \/ b < 0 /\ a > I32_MAX + b
    \/ b > 0 /\ a < I32_MIN + b

\* a - b, reduced modulo 2^32 into the i32 range
i32_sub(a, b) ==
    IF b = I32_MIN THEN i32_add(a, I32_MIN) ELSE i32_add(a, -b)

\* a * b does not fit in an i32
mul_overflows(a, b) ==
    LET ua == IF a < 0 THEN -a ELSE a
        ub == IF b < 0 THEN -b ELSE b
    IN  IF a = 0 \/ b = 0 THEN FALSE
        ELSE IF a = I32_MIN THEN b # 1
        ELSE IF b = I32_MIN THEN a # 1
        ELSE IF ub = 1 THEN FALSE
        ELSE IF (a > 0) = (b > 0) THEN ua > I32_MAX \div ub
        ELSE ua > ((I32_MAX - ub) + 1) \div ub + 1

\* the low 16 bits of x * y, for x and y in 0..65535
mul16(x, y) ==
    (x * (y % 256) + 256 * ((x * (y \div 256)) % 256)) % 65536

\* the bits above the low 16 of x * y, for x and y in 0..65535
mulhi16(x, y) ==
    (x * (y % 256) + 256 * ((x * (y \div 256)) % 256)) \div 65536
        + (x * (y \div 256)) \div 256

\* a * b, reduced modulo 2^32 into the i32 range (computed on the 16-bit
\* halves of the two's complement words when the product does not fit)
i32_mul(a, b) ==
    IF ~mul_overflows(a, b) THEN a * b
    ELSE LET al == a % 65536
             ah == (a \div 65536) % 65536
             bl == b % 65536
             bh == (b \div 65536) % 65536
             lo == mul16(al, bl)
             hi == (mulhi16(al, bl) + mul16(ah, bl) + mul16(al, bh)) % 65536
         IN  IF hi >= 32768 THEN (hi - 65536) * 65536 + lo
             ELSE hi * 65536 + lo

\* a / b panics in every build: division by zero, or i32::MIN / -1
div_panics(a, b) == b = 0 \/ (a = I32_MIN /\ b = -1)

\* a / b where it does not panic: the quotient loses its fraction (rounds
\* toward zero)
i32_div(a, b) ==
    LET ua == IF a < 0 THEN -a ELSE a
        ub == IF b < 0 THEN -b ELSE b
        q == I32_MAX \div ub + (IF I32_MAX % ub = ub - 1 THEN 1 ELSE 0)
    IN  IF b = 1 THEN a
        ELSE IF b = I32_MIN THEN (IF a = I32_MIN THEN 1 ELSE 0)
        ELSE IF a = I32_MIN THEN (IF b < 0 THEN q ELSE -q)
        ELSE IF (a >= 0) = (b > 0) THEN ua \div ub
        ELSE -(ua \div ub)

(* ------------------------- sdl2::rect::Rect ---------------------------- *)

Max(a, b) == IF a >= b THEN a ELSE b

Min(a, b) == IF a <= b THEN a ELSE b

\* Rect::center: origin plus half the size, integer division
center(r) == [x |-> r.x + (r.w \div 2), y |-> r.y + (r.h \div 2)]

\* Rect::center_on: move the origin so that center() is the point
center_on(r, p) == [r EXCEPT !.x = p.x - (r.w \div 2), !.y = p.y - (r.h \div 2)]

\* Rect::from_center: a rectangle of the given size centered on the point
from_center(p, w, h) == center_on([x |-> 0, y |-> 0, w |-> w, h |-> h], p)

has_intersection_open(A, B) ==
    /\ Min(A.x + A.w, B.x + B.w) - 1 > Max(A.x, B.x)
    /\ Min(A.y + A.h, B.y + B.h) - 1 > Max(A.y, B.y)

has_intersection_corner(A, B) ==
    /\ B.x <= A.x /\ A.x < B.x + B.w
    /\ B.y <= A.y /\ A.y < B.y + B.h

\* Rect::has_intersection (SDL_HasIntersection): false for an empty
\* rectangle, else the half-open extents [x, x+w) and [y, y+h) must share
\* interior on both axes (Amax <= Amin rejects)
has_intersection(A, B) ==
    IF A.w <= 0 \/ A.h <= 0 \/ B.w <= 0 \/ B.h <= 0 THEN FALSE
    ELSE IF Min(A.x + A.w, B.x + B.w) <= Max(A.x, B.x) THEN FALSE
    ELSE IF Min(A.y + A.h, B.y + B.h) <= Max(A.y, B.y) THEN FALSE
    ELSE TRUE

(* ------------------------------ Sprite --------------------------------- *)

\* Sprite::new: the rectangle has the image's size and is centered on (x, y)
Sprite_new(img, x, y) ==
    [rect |-> from_center([x |-> x, y |-> y], img[1], img[2]), angle |-> 0]

\* Sprite::position: the center of the rectangle
position(s) == center(s.rect)

translate_plus_y(s, d) ==
    [s EXCEPT !.rect.x = s.rect.x + d[1], !.rect.y = s.rect.y + d[2]]

translate_resizes(s, d) ==
    [s EXCEPT !.rect.w = s.rect.w + d[1], !.rect.h = s.rect.h - d[2]]

\* Sprite::translate: x-origin plus delta.x, y-origin MINUS delta.y
translate(s, d) ==
    [s EXCEPT !.rect.x = s.rect.x + d[1], !.rect.y = s.rect.y - d[2]]

set_position_neg_y(s, p) ==
    [s EXCEPT !.rect = center_on(s.rect, [x |-> p[1], y |-> 0 - p[2]])]

\* Sprite::set_position: re-center the rectangle on the point
set_position(s, p) == [s EXCEPT !.rect = center_on(s.rect, [x |-> p[1], y |-> p[2]])]

up_moves_down(s, vel) == translate(s, <<0, 0 - vel>>)

\* Sprite::up: translate by (0, vel)
up(s, vel) == translate(s, <<0, vel>>)

\* Sprite::down: translate by (0, vel * -1)
down(s, vel) == translate(s, <<0, vel * (-1)>>)

\* Sprite::left: translate by (vel * -1, 0)
left(s, vel) == translate(s, <<vel * (-1), 0>>)

\* Sprite::right: translate by (vel, 0)
right(s, vel) == translate(s, <<vel, 0>>)

\* Sprite::set_angle: store the angle, nothing else
set_angle(s, a) == [s EXCEPT !.angle = a]

\* Sprite::angle
angle(s) == s.angle

InBox(s) == s.rect.x \in Coords /\ s.rect.y \in Coords

\* every sprite Sprite::new can create with its origin inside the box
NewSprites ==
    {s \in {Sprite_new(img, c[1], c[2]) :
              img \in Images,
              c \in ((0 - MaxCoord)..(MaxCoord + 1)) \X ((0 - MaxCoord)..(MaxCoord + 1))} :
        InBox(s)}

(* ----------------------- sprite/physics.rs ------------------------------ *)

\* the rectangle a sprite turned by 90 degrees would cover
Turned(s) ==
    IF s.angle = 90 THEN [s.rect EXCEPT !.w = s.rect.h, !.h = s.rect.w] ELSE s.rect

collided_rotated(sprite1, sprite2) ==
    LET coll_rad1 == Max(sprite1.rect.w, sprite1.rect.h)
        coll_rad2 == Max(sprite2.rect.w, sprite2.rect.h)
        collision_radius == coll_rad1 + coll_rad2
        collision_diameter == collision_radius * collision_radius
        diff_x == position(sprite1).x - position(sprite2).x
        diff_y == position(sprite1).y - position(sprite2).y
    IN  IF diff_x * diff_x > collision_diameter THEN FALSE
        ELSE IF diff_y * diff_y > collision_diameter THEN FALSE
        ELSE has_intersection(Turned(sprite1), Turned(sprite2))

collided_radius_diff(sprite1, sprite2) ==
    LET coll_rad1 == Max(sprite1.rect.w, sprite1.rect.h)
        coll_rad2 == Max(sprite2.rect.w, sprite2.rect.h)
        collision_radius == coll_rad1 - coll_rad2
        collision_diameter == collision_radius * collision_radius
        diff_x == position(sprite1).x - position(sprite2).x
        diff_y == position(sprite1).y - position(sprite2).y
    IN  IF diff_x * diff_x > collision_diameter THEN FALSE
        ELSE IF diff_y * diff_y > collision_diameter THEN FALSE
        ELSE has_intersection(sprite1.rect, sprite2.rect)

collided_no_exact_test(sprite1, sprite2) ==
    LET coll_rad1 == Max(sprite1.rect.w, sprite1.rect.h)
        coll_rad2 == Max(sprite2.rect.w, sprite2.rect.h)
        collision_radius == coll_rad1 + coll_rad2
        collision_diameter == collision_radius * collision_radius
        diff_x == position(sprite1).x - position(sprite2).x
        diff_y == position(sprite1).y - position(sprite2).y
    IN  IF diff_x * diff_x > collision_diameter THEN FALSE
        ELSE IF diff_y * diff_y > collision_diameter THEN FALSE
        ELSE TRUE

collided_reject_inverted(sprite1, sprite2) ==
    LET coll_rad1 == Max(sprite1.rect.w, sprite1.rect.h)
        coll_rad2 == Max(sprite2.rect.w, sprite2.rect.h)
        collision_radius == coll_rad1 + coll_rad2
        collision_diameter == collision_radius * collision_radius
        diff_x == position(sprite1).x - position(sprite2).x
        diff_y == position(sprite1).y - position(sprite2).y
    IN  IF diff_x * diff_x > collision_diameter THEN TRUE
        ELSE IF diff_y * diff_y > collision_diameter THEN FALSE
        ELSE has_intersection(sprite1.rect, sprite2.rect)

\* collided: radius = max(width, height) of each sprite, threshold = the
\* squared sum of the radii; reject when a squared center distance component
\* exceeds the threshold, else the exact rectangle test
collided(sprite1, sprite2) ==
    LET coll_rad1 == Max(sprite1.rect.w, sprite1.rect.h)
        coll_rad2 == Max(sprite2.rect.w, sprite2.rect.h)
        collision_radius == i32_add(coll_rad1, coll_rad2)
        collision_diameter == i32_mul(collision_radius, collision_radius)
        diff_x == i32_sub(position(sprite1).x, position(sprite2).x)
        diff_x2 == i32_mul(diff_x, diff_x)
        diff_y == i32_sub(position(sprite1).y, position(sprite2).y)
        diff_y2 == i32_mul(diff_y, diff_y)
    IN  IF diff_x2 > collision_diameter THEN FALSE
        ELSE IF diff_y2 > collision_diameter THEN FALSE
        ELSE has_intersection(sprite1.rect, sprite2.rect)

\* collided: an i32 operation overflows before the function returns (the
\* y difference is computed only when the x test did not reject)
collided_overflows(sprite1, sprite2) ==
    LET coll_rad1 == Max(sprite1.rect.w, sprite1.rect.h)
        coll_rad2 == Max(sprite2.rect.w, sprite2.rect.h)
        collision_radius == i32_add(coll_rad1, coll_rad2)
        collision_diameter == i32_mul(collision_radius, collision_radius)
        diff_x == i32_sub(position(sprite1).x, position(sprite2).x)
        diff_x2 == i32_mul(diff_x, diff_x)
        diff_y == i32_sub(position(sprite1).y, position(sprite2).y)
    IN  \/ add_overflows(coll_rad1, coll_rad2)
        \/ mul_overflows(collision_radius, collision_radius)
        \/ sub_overflows(position(sprite1).x, position(sprite2).x)
        \/ mul_overflows(diff_x, diff_x)
        \/ /\ ~(diff_x2 > collision_diameter)
           /\ \/ sub_overflows(position(sprite1).y, position(sprite2).y)
              \/ mul_overflows(diff_y, diff_y)

\* check_for_collision: the public wrapper of collided
check_for_collision(sprite1, sprite2) == collided(sprite1, sprite2)

check_for_collision_with_point_flipped_test(sprite1, point) ==
    LET coll_rad == Max(sprite1.rect.w, sprite1.rect.h)
        coll2 == i32_mul(coll_rad, coll_rad)
        diff_x == i32_sub(position(sprite1).x, point[1])
        diff_x2 == i32_mul(diff_x, diff_x)
        diff_y == i32_sub(position(sprite1).y, point[2])
        diff_y2 == i32_mul(diff_y, diff_y)
    IN  IF diff_x2 < coll2 THEN FALSE
        ELSE IF diff_y2 < coll2 THEN FALSE
        ELSE TRUE

check_for_collision_with_point_in_rect(sprite1, point) ==
    /\ sprite1.rect.x <= point[1] /\ point[1] < sprite1.rect.x + sprite1.rect.w
    /\ sprite1.rect.y <= point[2] /\ point[2] < sprite1.rect.y + sprite1.rect.h

\* check_for_collision_with_point: the two axis comparisons against the
\* squared radius of the sprite, then true
check_for_collision_with_point(sprite1, point) ==
    LET coll_rad == Max(sprite1.rect.w, sprite1.rect.h)
        coll2 == i32_mul(coll_rad, coll_rad)
        diff_x == i32_sub(position(sprite1).x, point[1])
        diff_x2 == i32_mul(diff_x, diff_x)
        diff_y == i32_sub(position(sprite1).y, point[2])
        diff_y2 == i32_mul(diff_y, diff_y)
    IN  IF diff_x2 > coll2 THEN FALSE
        ELSE IF diff_y2 > coll2 THEN FALSE
        ELSE TRUE

\* check_for_collision_with_point: an i32 operation overflows before the
\* function returns
check_for_collision_with_point_overflows(sprite1, point) ==
    LET coll_rad == Max(sprite1.rect.w, sprite1.rect.h)
        coll2 == i32_mul(coll_rad, coll_rad)
        diff_x == i32_sub(position(sprite1).x, point[1])
        diff_x2 == i32_mul(diff_x, diff_x)
        diff_y == i32_sub(position(sprite1).y, point[2])
    IN  \/ mul_overflows(coll_rad, coll_rad)
        \/ sub_overflows(position(sprite1).x, point[1])
        \/ mul_overflows(diff_x, diff_x)
        \/ /\ ~(diff_x2 > coll2)
           /\ \/ sub_overflows(position(sprite1).y, point[2])
              \/ mul_overflows(diff_y, diff_y)

\* list.inner().iter().filter(..).collect(): the references (indices into
\* the collection) of the members that pass the test, in iteration order
RECURSIVE filter_from(_, _, _)
filter_from(sprite, l, k) ==
    IF k > Len(l) THEN <<>>
    ELSE IF check_for_collision(sprite, l[k])
         THEN <<k>> \o filter_from(sprite, l, k + 1)
         ELSE filter_from(sprite, l, k + 1)

RECURSIVE filter_rev(_, _, _)
filter_rev(sprite, l, k) ==
    IF k > Len(l) THEN <<>>
    ELSE IF check_for_collision(sprite, l[k])
         THEN filter_rev(sprite, l, k + 1) \o <<k>>
         ELSE filter_rev(sprite, l, k + 1)

RECURSIVE filter_not_self(_, _, _)
filter_not_self(sprite, l, k) ==
    IF k > Len(l) THEN <<>>
    ELSE IF l[k] # sprite /\ check_for_collision(sprite, l[k])
         THEN <<k>> \o filter_not_self(sprite, l, k + 1)
         ELSE filter_not_self(sprite, l, k + 1)

check_for_collision_with_collection_rev(sprite, l) == filter_rev(sprite, l, 1)

check_for_collision_with_collection_not_self(sprite, l) == filter_not_self(sprite, l, 1)

\* check_for_collision_with_collection
check_for_collision_with_collection(sprite, l) == filter_from(sprite, l, 1)

(* -------------------------- SpriteCollection --------------------------- *)

\* Option<T>
None == [some |-> FALSE]

Some(x) == [some |-> TRUE, val |-> x]

\* SpriteCollection::push (Vec::push): the sprite goes to the end
push(v, s) == Append(v, s)

insert_at_end(v, s, index) ==
    IF index > Len(v) THEN [panic |-> TRUE, v |-> v]
    ELSE [panic |-> FALSE, v |-> Append(v, s)]

\* SpriteCollection::insert(s, index) (Vec::insert(index, s)): panics when
\* index > len, else the elements from index on move one place right and
\* the sprite is written at index (0-based)
insert(v, s, index) ==
    IF index > Len(v) THEN [panic |-> TRUE, v |-> v]
    ELSE [panic |-> FALSE,
          v |-> [k \in 1..(Len(v) + 1) |->
                    IF k < index + 1 THEN v[k]
                    ELSE IF k = index + 1 THEN s
                    ELSE v[k - 1]]]

\* SpriteCollection::pop (Vec::pop): None on an empty collection, else the
\* last element is taken out
pop(v) ==
    IF Len(v) = 0 THEN [v |-> v, val |-> None]
    ELSE [v |-> [k \in 1..(Len(v) - 1) |-> v[k]], val |-> Some(v[Len(v)])]

remove_clamped(v, index) ==
    IF Len(v) = 0 THEN [panic |-> TRUE, v |-> v]
    ELSE LET i == Min(index, Len(v) - 1)
         IN  [panic |-> FALSE,
              v |-> [k \in 1..(Len(v) - 1) |-> IF k < i + 1 THEN v[k] ELSE v[k + 1]],
              val |-> v[i + 1]]

\* SpriteCollection::remove (Vec::remove): panics when index >= len, else
\* the element at index (0-based) is returned and the later ones move one
\* place left
remove(v, index) ==
    IF index >= Len(v) THEN [panic |-> TRUE, v |-> v]
    ELSE [panic |-> FALSE,
          v |-> [k \in 1..(Len(v) - 1) |-> IF k < index + 1 THEN v[k] ELSE v[k + 1]],
          val |-> v[index + 1]]

\* SpriteCollection::clear (Vec::clear)
clear(v) == <<>>

concat_keeps_other(v, other) ==
    [v |-> [k \in 1..(Len(v) + Len(other)) |->
               IF k <= Len(v) THEN v[k] ELSE other[k - Len(v)]],
     other |-> other]

\* SpriteCollection::concat (Vec::append): every element of other is moved
\* to the end of self, in order, and other is left empty
concat(v, other) ==
    [v |-> [k \in 1..(Len(v) + Len(other)) |->
               IF k <= Len(v) THEN v[k] ELSE other[k - Len(v)]],
     other |-> <<>>]

\* SpriteCollection::len
len(v) == Len(v)

\* SpriteCollection::get (slice::get): None when index >= len
get(v, index) == IF index < Len(v) THEN Some(v[index + 1]) ELSE None

\* SpriteCollection::is_empty
is_empty(v) == Len(v) = 0

(* ------------------------------- f32 ----------------------------------- *)

\* an f32 is finite (v = the value in tenths), an infinity (v = its sign)
\* or a NaN; the two zeros compare equal and are one value here
Fin(t) == [k |-> "fin", v |-> t]

Inf == [k |-> "inf", v |-> 1]

NegInf == [k |-> "inf", v |-> -1]

NaN == [k |-> "nan", v |-> 0]

Sgn(n) == IF n > 0 THEN 1 ELSE IF n < 0 THEN -1 ELSE 0

\* f32 + f32: NaN in, NaN out; opposite infinities give NaN
FAdd(a, b) ==
    IF a.k = "nan" \/ b.k = "nan" THEN NaN
    ELSE IF a.k = "inf" /\ b.k = "inf" THEN (IF a.v = b.v THEN a ELSE NaN)
    ELSE IF a.k = "inf" THEN a
    ELSE IF b.k = "inf" THEN b
    ELSE Fin(a.v + b.v)

\* f32 * f32: NaN in, NaN out; infinity times zero gives NaN; the finite
\* product is exact when one factor is a whole number, as in every call here
FMul(a, b) ==
    IF a.k = "nan" \/ b.k = "nan" THEN NaN
    ELSE IF a.k = "inf" \/ b.k = "inf"
         THEN (IF a.v = 0 \/ b.v = 0 THEN NaN
               ELSE [k |-> "inf", v |-> Sgn(a.v) * Sgn(b.v)])
    ELSE Fin((a.v * b.v) \div 10)

\* f32 == f32: a NaN is equal to nothing, itself included
FEq(a, b) == a.k # "nan" /\ b.k # "nan" /\ a = b

as_i32_floor(f) ==
    IF f.k = "nan" THEN 0
    ELSE IF f.k = "inf" THEN (IF f.v > 0 THEN I32_MAX ELSE I32_MIN)
    ELSE f.v \div 10

\* f32 as i32: NaN becomes 0, a value beyond the i32 range (an infinity
\* included) becomes the nearest limit, any other value loses its fraction
as_i32(f) ==
    IF f.k = "nan" THEN 0
    ELSE IF f.k = "inf" THEN (IF f.v > 0 THEN I32_MAX ELSE I32_MIN)
    ELSE IF f.v >= 0 THEN f.v \div 10
    ELSE -((-f.v) \div 10)

(* --------------------------- vec2.rs: Direction ------------------------ *)

Directions == {"North", "South", "East", "West"}

\* Direction::flip_x: East and West trade places
flip_x(d) ==
    CASE d = "East" -> "West"
      [] d = "West" -> "East"
      [] OTHER -> d

flip_y_identity(d) == d

\* Direction::flip_y: North and South trade places
flip_y(d) ==
    CASE d = "North" -> "South"
      [] d = "South" -> "North"
      [] OTHER -> d

flipped_x_only(d) == flip_x(d)

\* Direction::flipped: self.flip_x().flip_y()
flipped(d) == flip_y(flip_x(d))

\* Neg for Direction: self.flipped()
Direction_neg(d) == flipped(d)

\* From<Direction> for Vec2
Vec2_from_Direction(v) ==
    CASE v = "North" -> [x |-> Fin(0), y |-> Fin(-10)]
      [] v = "South" -> [x |-> Fin(0), y |-> Fin(10)]
      [] v = "East" -> [x |-> Fin(10), y |-> Fin(0)]
      [] v = "West" -> [x |-> Fin(-10), y |-> Fin(0)]

Vec2Int_from_Direction_y_up(v) ==
    CASE v = "North" -> [x |-> 0, y |-> 1]
      [] v = "South" -> [x |-> 0, y |-> -1]
      [] v = "East" -> [x |-> 1, y |-> 0]
      [] v = "West" -> [x |-> -1, y |-> 0]

\* From<Direction> for Vec2Int
Vec2Int_from_Direction(v) ==
    CASE v = "North" -> [x |-> 0, y |-> -1]
      [] v = "South" -> [x |-> 0, y |-> 1]
      [] v = "East" -> [x |-> 1, y |-> 0]
      [] v = "West" -> [x |-> -1, y |-> 0]

(* ------------------------ vec2.rs: Vec2, Vec2Int ----------------------- *)

\* derived PartialEq of Vec2: both fields equal as f32
Vec2_eq(a, b) == FEq(a.x, b.x) /\ FEq(a.y, b.y)

\* Mul<f32> for Vec2
Vec2_mul(v, rhs) == [x |-> FMul(v.x, rhs), y |-> FMul(v.y, rhs)]

\* Neg for Vec2: self * -1.0
Vec2_neg(v) == Vec2_mul(v, Fin(-10))

\* Add for Vec2
Vec2_add(a, rhs) == [x |-> FAdd(a.x, rhs.x), y |-> FAdd(a.y, rhs.y)]

\* Sub<T> for Vec2: -(-self + rhs)
Vec2_sub(a, rhs) == Vec2_neg(Vec2_add(Vec2_neg(a), rhs))

\* the outcome of an operation on i32 values under a build: a panic when an
\* intermediate result overflows and the build checks overflow, else the
\* value
Outcome(build, overflows, val) ==
    IF build = "debug" /\ overflows THEN [panic |-> TRUE]
    ELSE [panic |-> FALSE, val |-> val]

\* Mul<i32> for Vec2Int
Vec2Int_mul(v, rhs) == [x |-> i32_mul(v.x, rhs), y |-> i32_mul(v.y, rhs)]

\* Mul<i32> for Vec2Int: a product does not fit
Vec2Int_mul_overflows(v, rhs) ==
    mul_overflows(v.x, rhs) \/ mul_overflows(v.y, rhs)

\* Neg for Vec2Int: self * -1
Vec2Int_neg(v) == Vec2Int_mul(v, -1)

\* Neg for Vec2Int: a component is i32::MIN
Vec2Int_neg_overflows(v) == Vec2Int_mul_overflows(v, -1)

\* Add for Vec2Int
Vec2Int_add(a, rhs) == [x |-> i32_add(a.x, rhs.x), y |-> i32_add(a.y, rhs.y)]

\* Add for Vec2Int: a sum does not fit
Vec2Int_add_overflows(a, rhs) ==
    add_overflows(a.x, rhs.x) \/ add_overflows(a.y, rhs.y)

Vec2Int_sub_reversed(a, rhs) == Vec2Int_neg(Vec2Int_add(Vec2Int_neg(rhs), a))

\* Sub<T> for Vec2Int: -(-self + rhs)
Vec2Int_sub(a, rhs) == Vec2Int_neg(Vec2Int_add(Vec2Int_neg(a), rhs))

\* Sub<T> for Vec2Int: one of the two negations or the addition overflows
Vec2Int_sub_overflows(a, rhs) ==
    \/ Vec2Int_neg_overflows(a)
    \/ Vec2Int_add_overflows(Vec2Int_neg(a), rhs)
    \/ Vec2Int_neg_overflows(Vec2Int_add(Vec2Int_neg(a), rhs))

\* Div<i32> for Vec2Int: panics on a zero divisor and on i32::MIN / -1
Vec2Int_div_panics(v, rhs) == div_panics(v.x, rhs) \/ div_panics(v.y, rhs)

\* Div<i32> for Vec2Int
Vec2Int_div(v, rhs) == [x |-> i32_div(v.x, rhs), y |-> i32_div(v.y, rhs)]

Vec2Int_sq_magnitude_no_squares(v) == i32_add(i32_mul(v.x, 2), i32_mul(v.y, 2))

\* Vec2Int::sq_magnitude: x * x + y * y
Vec2Int_sq_magnitude(v) == i32_add(i32_mul(v.x, v.x), i32_mul(v.y, v.y))

\* Vec2Int::sq_magnitude: a square or their sum does not fit
Vec2Int_sq_magnitude_overflows(v) ==
    \/ mul_overflows(v.x, v.x)
    \/ mul_overflows(v.y, v.y)
    \/ add_overflows(i32_mul(v.x, v.x), i32_mul(v.y, v.y))

\* Vec2Int::sq_dist: (self - rhs).sq_magnitude()
Vec2Int_sq_dist(a, rhs) == Vec2Int_sq_magnitude(Vec2Int_sub(a, rhs))

\* Vec2Int::sq_dist: the subtraction or the squared magnitude overflows
Vec2Int_sq_dist_overflows(a, rhs) ==
    \/ Vec2Int_sub_overflows(a, rhs)
    \/ Vec2Int_sq_magnitude_overflows(Vec2Int_sub(a, rhs))

\* Vec2::rounded: each field as i32
Vec2_rounded(v) == [x |-> as_i32(v.x), y |-> as_i32(v.y)]

\* Mul<f32> for Direction: Vec2::from(self) * rhs
Direction_mul_f32(d, rhs) == Vec2_mul(Vec2_from_Direction(d), rhs)

\* Mul<i32> for Direction: Vec2Int::from(self) * rhs
Direction_mul_i32(d, rhs) == Vec2Int_mul(Vec2Int_from_Direction(d), rhs)

(* --------------------- math/vec3.rs: Vec3, Vec3Int --------------------- *)

\* derived PartialEq of Vec3
Vec3_eq(a, b) == FEq(a.x, b.x) /\ FEq(a.y, b.y) /\ FEq(a.z, b.z)

\* Mul<f32> for Vec3
Vec3_mul(v, rhs) ==
    [x |-> FMul(v.x, rhs), y |-> FMul(v.y, rhs), z |-> FMul(v.z, rhs)]

\* Neg for Vec3: self * -1.0
Vec3_neg(v) == Vec3_mul(v, Fin(-10))

\* Add for Vec3
Vec3_add(a, rhs) ==
    [x |-> FAdd(a.x, rhs.x), y |-> FAdd(a.y, rhs.y), z |-> FAdd(a.z, rhs.z)]

\* Sub<T> for Vec3: -(-self + rhs)
Vec3_sub(a, rhs) == Vec3_neg(Vec3_add(Vec3_neg(a), rhs))

\* Mul<i32> for Vec3Int
Vec3Int_mul(v, rhs) ==
    [x |-> i32_mul(v.x, rhs), y |-> i32_mul(v.y, rhs), z |-> i32_mul(v.z, rhs)]

\* Neg for Vec3Int: self * -1
Vec3Int_neg(v) == Vec3Int_mul(v, -1)

\* Add for Vec3Int
Vec3Int_add(a, rhs) ==
    [x |-> i32_add(a.x, rhs.x), y |-> i32_add(a.y, rhs.y),
     z |-> i32_add(a.z, rhs.z)]

\* Sub<T> for Vec3Int: -(-self + rhs)
Vec3Int_sub(a, rhs) == Vec3Int_neg(Vec3Int_add(Vec3Int_neg(a), rhs))

\* Vec3::rounded: each field as i32
Vec3_rounded(v) == [x |-> as_i32(v.x), y |-> as_i32(v.y), z |-> as_i32(v.z)]

(* ------------------------------- Game ---------------------------------- *)

\* Game::new: the stop flag is false.  Besides the flag the record holds the
\* position of the thread (pc: "idle" outside run, else the statement of
\* the loop it is about to execute, "in_func" inside the caller's
\* callback), the last two things run did (check, clear, func, present),
\* the number of callback invocations of the current run, the number of
\* runs, the result of the last run, whether the flag was set when that run
\* was called and whether its last poll of the event pump found a Quit event
Game_new ==
    [stopped |-> FALSE, pc |-> "idle", last |-> "none", prev |-> "none",
     calls |-> 0, runs |-> 0, result |-> "none", cold |-> FALSE,
     quit |-> FALSE]

\* the record after run did the thing e
Did(g, e) == [g EXCEPT !.prev = g.last, !.last = e]

Game_run_resets_flag(g, ok) ==
    LET h == [g EXCEPT !.runs = g.runs + 1, !.calls = 0, !.last = "none",
                       !.prev = "none", !.cold = g.stopped,
                       !.quit = FALSE, !.stopped = FALSE]
    IN  IF ok THEN [h EXCEPT !.pc = "check", !.result = "none"]
        ELSE [h EXCEPT !.result = "Err"]

\* Game::run up to the loop: sdl2::init, the window, the canvas, ttf and the
\* event pump each return early with the error when they fail (ok = FALSE),
\* else the loop is entered
Game_run(g, ok) ==
    LET h == [g EXCEPT !.runs = g.runs + 1, !.calls = 0, !.last = "none",
                       !.prev = "none", !.cold = g.stopped, !.quit = FALSE]
    IN  IF ok THEN [h EXCEPT !.pc = "check", !.result = "none"]
        ELSE [h EXCEPT !.result = "Err"]

loop_check_skips_clear(g, quit) ==
    IF g.stopped \/ quit
    THEN [Did(g, "check") EXCEPT !.pc = "idle", !.result = "Ok",
                                !.quit = ~g.stopped]
    ELSE [Did(g, "check") EXCEPT !.pc = "callback"]

loop_check_ignores_flag(g, quit) ==
    IF quit
    THEN [Did(g, "check") EXCEPT !.pc = "idle", !.result = "Ok",
                                !.quit = TRUE]
    ELSE [Did(g, "check") EXCEPT !.pc = "clear"]

\* the head of the loop: `if self.stopped.get() || ctx.check_for_quit()
\* { break; }`, and Ok(()) after the loop; quit says whether the event pump
\* holds a Quit event (it is polled only when the flag is not set)
loop_check(g, quit) ==
    IF g.stopped \/ quit
    THEN [Did(g, "check") EXCEPT !.pc = "idle", !.result = "Ok",
                                !.quit = ~g.stopped]
    ELSE [Did(g, "check") EXCEPT !.pc = "clear"]

\* ctx.clear()
ctx_clear(g) == [Did(g, "clear") EXCEPT !.pc = "callback"]

\* func(&mut ctx): the callback is entered
call_func(g) ==
    [Did(g, "func") EXCEPT !.pc = "in_func", !.calls = g.calls + 1]

\* the callback returns
func_returns(g) == [g EXCEPT !.pc = "present"]

\* ctx.update(): the canvas is presented
ctx_update(g) == [Did(g, "present") EXCEPT !.pc = "check"]

\* Game::terminate: the stop flag is set
terminate(g) == [g EXCEPT !.stopped = TRUE]

(* ------------------------------ Button --------------------------------- *)

\* enum Actions
Actions == {"PRESSED", "DEPRESSED", "HOVER", "NONE"}

\* Button::new: the sprite at (x, y) and an empty actions stack
Button_new(img, x, y) ==
    [sprite |-> Sprite_new(img, x, y), x |-> x, y |-> y, actions |-> <<>>]

\* m.buttons.get(0).unwrap_or_else(|| &MouseButton::Unknown)
first_button(m) ==
    IF Len(m.buttons) > 0 THEN m.buttons[1] ELSE "Unknown"

\* Vec::pop on the actions stack: nothing happens to an empty stack
pop_action(actions) ==
    IF Len(actions) > 0 THEN SubSeq(actions, 1, Len(actions) - 1)
    ELSE actions

clicked_calls_on_any_action(b, m, coll) ==
    LET state == first_button(m)
        popped == Len(b.actions) > 0
        f_calls == IF popped THEN 1 ELSE 0
        actions1 == pop_action(b.actions)
        actions2 ==
            IF state = "Left"
            THEN IF coll THEN Append(actions1, "PRESSED") ELSE actions1
            ELSE IF coll THEN Append(actions1, "HOVER")
            ELSE IF Len(actions1) > 0 THEN pop_action(actions1)
            ELSE actions1
    IN  [button |-> [b EXCEPT !.actions = actions2], f_calls |-> f_calls]

clicked_keeps_top(b, m, coll) ==
    LET state == first_button(m)
        popped == Len(b.actions) > 0
        f_calls == IF popped /\ b.actions[Len(b.actions)] = "PRESSED"
                   THEN 1 ELSE 0
        actions1 == b.actions
        actions2 ==
            IF state = "Left"
            THEN IF coll THEN Append(actions1, "PRESSED") ELSE actions1
            ELSE IF coll THEN Append(actions1, "HOVER")
            ELSE IF Len(actions1) > 0 THEN pop_action(actions1)
            ELSE actions1
    IN  [button |-> [b EXCEPT !.actions = actions2], f_calls |-> f_calls]

\* Button::clicked(m, f), where coll is the value that
\* m.coll_with_sprite(&self.sprite) returns in this call: the top of the
\* stack is popped and f is called when it is PRESSED; then PRESSED is
\* pushed when the first pressed button is Left and the mouse is on the
\* sprite, HOVER when it is on the sprite without Left, and otherwise (no
\* Left, not on the sprite) one more element is popped if there is one.
\* The result is the button and the number of calls of f
clicked(b, m, coll) ==
    LET state == first_button(m)
        popped == Len(b.actions) > 0
        f_calls == IF popped /\ b.actions[Len(b.actions)] = "PRESSED"
                   THEN 1 ELSE 0
        actions1 == pop_action(b.actions)
        actions2 ==
            IF state = "Left"
            THEN IF coll THEN Append(actions1, "PRESSED") ELSE actions1
            ELSE IF coll THEN Append(actions1, "HOVER")
            ELSE IF Len(actions1) > 0 THEN pop_action(actions1)
            ELSE actions1
    IN  [button |-> [b EXCEPT !.actions = actions2], f_calls |-> f_calls]

(* ------------------------------ actions -------------------------------- *)

NoCall == [op |-> "none"]

\* the last call did not panic: a panic ends the program
Running == ~(ret.op \in {"insert", "remove"} /\ ret.panic)

\* sprites[i].translate(d)
Translate(i, d) ==
    /\ InBox(translate(sprites[i], d))
    /\ sprites' = [sprites EXCEPT ![i] = translate(sprites[i], d)]
    /\ ret' = [op |-> "translate", i |-> i, delta |-> d, before |-> sprites[i]]
    /\ UNCHANGED <<list, game, button>>

\* sprites[i].set_position(p)
SetPosition(i, p) ==
    /\ InBox(set_position(sprites[i], p))
    /\ sprites' = [sprites EXCEPT ![i] = set_position(sprites[i], p)]
    /\ ret' = [op |-> "set_position", i |-> i, point |-> p]
    /\ UNCHANGED <<list, game, button>>

\* check_for_collision(&sprites[i], &sprites[j])
CheckForCollision(i, j) ==
    /\ \E build \in Builds :
           ret' = [op |-> "check_for_collision", i |-> i, j |-> j]
                      @@ Outcome(build,
                                 collided_overflows(sprites[i], sprites[j]),
                                 check_for_collision(sprites[i], sprites[j]))
    /\ UNCHANGED <<sprites, list, game, button>>

\* check_for_collision_with_point(&sprites[i], &p)
CheckForCollisionWithPoint(i, p) ==
    /\ \E build \in Builds :
           ret' = [op |-> "check_for_collision_with_point", i |-> i,
                   point |-> p]
                      @@ Outcome(build,
                                 check_for_collision_with_point_overflows(
                                     sprites[i], p),
                                 check_for_collision_with_point(sprites[i], p))
    /\ UNCHANGED <<sprites, list, game, button>>

\* list.push(Sprite::new(img, p.x, p.y))
Push(img, p) ==
    /\ Running
    /\ Len(list) < MaxLen
    /\ list' = push(list, Sprite_new(img, p[1], p[2]))
    /\ ret' = [op |-> "push", s |-> Sprite_new(img, p[1], p[2]), before |-> list]
    /\ UNCHANGED <<sprites, game, button>>

\* list.insert(Sprite::new(img, p.x, p.y), index)
Insert(img, p, index) ==
    /\ Running
    /\ Len(list) < MaxLen
    /\ LET r == insert(list, Sprite_new(img, p[1], p[2]), index)
       IN  /\ list' = r.v
           /\ ret' = [op |-> "insert", s |-> Sprite_new(img, p[1], p[2]), index |-> index,
                      before |-> list, panic |-> r.panic]
    /\ UNCHANGED <<sprites, game, button>>

\* list.pop()
Pop ==
    /\ Running
    /\ list' = pop(list).v
    /\ ret' = [op |-> "pop", before |-> list, val |-> pop(list).val]
    /\ UNCHANGED <<sprites, game, button>>

\* list.remove(index)
Remove(index) ==
    /\ Running
    /\ LET r == remove(list, index)
       IN  /\ list' = r.v
           /\ ret' = [op |-> "remove", index |-> index, before |-> list, panic |-> r.panic,
                      val |-> IF r.panic THEN None ELSE Some(r.val)]
    /\ UNCHANGED <<sprites, game, button>>

\* list.clear()
Clear ==
    /\ Running
    /\ list' = clear(list)
    /\ ret' = [op |-> "clear", before |-> list]
    /\ UNCHANGED <<sprites, game, button>>

\* list.concat(other)
Concat(other) ==
    /\ Running
    /\ Len(list) + Len(other) <= MaxLen
    /\ list' = concat(list, other).v
    /\ ret' = [op |-> "concat", before |-> list, other |-> other,
               other_after |-> concat(list, other).other]
    /\ UNCHANGED <<sprites, game, button>>

\* list.get(index)
Get(index) ==
    /\ Running
    /\ ret' = [op |-> "get", index |-> index, val |-> get(list, index)]
    /\ UNCHANGED <<sprites, list, game, button>>

\* list.is_empty() and list.len()
IsEmpty ==
    /\ Running
    /\ ret' = [op |-> "is_empty", val |-> is_empty(list), len |-> len(list)]
    /\ UNCHANGED <<sprites, list, game, button>>

\* the sprite handed to the collection check: sprites[1] (self = 0) or the
\* member list[self] of the collection itself
Queried(self) == IF self = 0 THEN sprites[1] ELSE list[self]

\* check_for_collision_with_collection(&sprite, &list)
CheckForCollisionWithCollection(self) ==
    /\ self \in 0..Len(list)
    /\ \E build \in Builds :
           ret' = [op |-> "check_for_collision_with_collection",
                   self |-> self]
                      @@ Outcome(build,
                                 \E k \in 1..Len(list) :
                                     collided_overflows(Queried(self), list[k]),
                                 check_for_collision_with_collection(
                                     Queried(self), list))
    /\ UNCHANGED <<sprites, list, game, button>>

\* sprites[i].up(v)
Up(i, v) ==
    /\ InBox(up(sprites[i], v))
    /\ sprites' = [sprites EXCEPT ![i] = up(sprites[i], v)]
    /\ ret' = [op |-> "up", i |-> i, vel |-> v, before |-> sprites[i]]
    /\ UNCHANGED <<list, game, button>>

\* sprites[i].down(v)
Down(i, v) ==
    /\ InBox(down(sprites[i], v))
    /\ sprites' = [sprites EXCEPT ![i] = down(sprites[i], v)]
    /\ ret' = [op |-> "down", i |-> i, vel |-> v, before |-> sprites[i]]
    /\ UNCHANGED <<list, game, button>>

\* sprites[i].left(v)
Left(i, v) ==
    /\ InBox(left(sprites[i], v))
    /\ sprites' = [sprites EXCEPT ![i] = left(sprites[i], v)]
    /\ ret' = [op |-> "left", i |-> i, vel |-> v, before |-> sprites[i]]
    /\ UNCHANGED <<list, game, button>>

\* sprites[i].right(v)
Right(i, v) ==
    /\ InBox(right(sprites[i], v))
    /\ sprites' = [sprites EXCEPT ![i] = right(sprites[i], v)]
    /\ ret' = [op |-> "right", i |-> i, vel |-> v, before |-> sprites[i]]
    /\ UNCHANGED <<list, game, button>>

\* sprites[i].set_angle(a)
SetAngle(i, a) ==
    /\ sprites' = [sprites EXCEPT ![i] = set_angle(sprites[i], a)]
    /\ ret' = [op |-> "set_angle", i |-> i, angle |-> a, before |-> sprites[i]]
    /\ UNCHANGED <<list, game, button>>

\* for the k-th sprite of list.iter(): spr.set_angle(a)
SetAngleMember(k, a) ==
    /\ k \in 1..Len(list)
    /\ list' = [list EXCEPT ![k] = set_angle(list[k], a)]
    /\ ret' = [op |-> "set_angle_member", k |-> k, angle |-> a]
    /\ UNCHANGED <<sprites, game, button>>

\* sprites[i].angle()
Angle(i) ==
    /\ ret' = [op |-> "angle", i |-> i, val |-> angle(sprites[i])]
    /\ UNCHANGED <<sprites, list, game, button>>

\* no call has been made yet: the operators below are pure functions of
\* their arguments, so a behaviour is one call on freshly chosen values
Idle == ret = NoCall

\* d.flipped()
Flipped(d) ==
    /\ Idle
    /\ ret' = [op |-> "flipped", d |-> d, val |-> flipped(d)]
    /\ UNCHANGED <<sprites, list, game, button>>

\* d.flip_x()
FlipX(d) ==
    /\ Idle
    /\ ret' = [op |-> "flip_x", d |-> d, val |-> flip_x(d)]
    /\ UNCHANGED <<sprites, list, game, button>>

\* d.flip_y()
FlipY(d) ==
    /\ Idle
    /\ ret' = [op |-> "flip_y", d |-> d, val |-> flip_y(d)]
    /\ UNCHANGED <<sprites, list, game, button>>

\* -d
DirectionNeg(d) ==
    /\ Idle
    /\ ret' = [op |-> "Direction::neg", d |-> d, val |-> Direction_neg(d)]
    /\ UNCHANGED <<sprites, list, game, button>>

\* Vec2::from(d)
Vec2FromDirection(d) ==
    /\ Idle
    /\ ret' = [op |-> "Vec2::from", d |-> d, val |-> Vec2_from_Direction(d)]
    /\ UNCHANGED <<sprites, list, game, button>>

\* Vec2Int::from(d)
Vec2IntFromDirection(d) ==
    /\ Idle
    /\ ret' = [op |-> "Vec2Int::from", d |-> d,
               val |-> Vec2Int_from_Direction(d)]
    /\ UNCHANGED <<sprites, list, game, button>>

\* d * k for an f32 k
DirectionMulF32(d, k) ==
    /\ Idle
    /\ ret' = [op |-> "Direction::mul_f32", d |-> d, k |-> k,
               val |-> Direction_mul_f32(d, k)]
    /\ UNCHANGED <<sprites, list, game, button>>

\* d * k for an i32 k
DirectionMulI32(d, k) ==
    /\ Idle
    /\ ret' = [op |-> "Direction::mul_i32", d |-> d, k |-> k,
               val |-> Direction_mul_i32(d, k)]
    /\ UNCHANGED <<sprites, list, game, button>>

\* a - b on Vec2, and the comparison a - b == -(-a + b)
Vec2Sub(a, b) ==
    /\ Idle
    /\ ret' = [op |-> "Vec2::sub", a |-> a, b |-> b, val |-> Vec2_sub(a, b),
               eq |-> Vec2_eq(Vec2_sub(a, b),
                              Vec2_neg(Vec2_add(Vec2_neg(a), b)))]
    /\ UNCHANGED <<sprites, list, game, button>>

\* a - b on Vec2Int, and the comparison a - b == -(-a + b)
Vec2IntSub(build, a, b) ==
    /\ Idle
    /\ ret' = [op |-> "Vec2Int::sub", a |-> a, b |-> b, build |-> build]
                  @@ Outcome(build, Vec2Int_sub_overflows(a, b),
                             Vec2Int_sub(a, b))
                  @@ [eq |-> Vec2Int_sub(a, b)
                                 = Vec2Int_neg(Vec2Int_add(Vec2Int_neg(a), b))]
    /\ UNCHANGED <<sprites, list, game, button>>

\* -v on Vec2Int
Vec2IntNeg(build, v) ==
    /\ Idle
    /\ ret' = [op |-> "Vec2Int::neg", v |-> v, build |-> build]
                  @@ Outcome(build, Vec2Int_neg_overflows(v), Vec2Int_neg(v))
    /\ UNCHANGED <<sprites, list, game, button>>

\* a + b on Vec2Int
Vec2IntAdd(build, a, b) ==
    /\ Idle
    /\ ret' = [op |-> "Vec2Int::add", a |-> a, b |-> b, build |-> build]
                  @@ Outcome(build, Vec2Int_add_overflows(a, b),
                             Vec2Int_add(a, b))
    /\ UNCHANGED <<sprites, list, game, button>>

\* v * k on Vec2Int
Vec2IntMul(build, v, k) ==
    /\ Idle
    /\ ret' = [op |-> "Vec2Int::mul", v |-> v, k |-> k, build |-> build]
                  @@ Outcome(build, Vec2Int_mul_overflows(v, k),
                             Vec2Int_mul(v, k))
    /\ UNCHANGED <<sprites, list, game, button>>

\* v / k on Vec2Int: the panic does not depend on the build
Vec2IntDiv(v, k) ==
    /\ Idle
    /\ ret' = IF Vec2Int_div_panics(v, k)
              THEN [op |-> "Vec2Int::div", v |-> v, k |-> k, panic |-> TRUE]
              ELSE [op |-> "Vec2Int::div", v |-> v, k |-> k, panic |-> FALSE,
                    val |-> Vec2Int_div(v, k)]
    /\ UNCHANGED <<sprites, list, game, button>>

\* v.sq_magnitude() on Vec2Int
Vec2IntSqMagnitude(build, v) ==
    /\ Idle
    /\ ret' = [op |-> "Vec2Int::sq_magnitude", v |-> v, build |-> build]
                  @@ Outcome(build, Vec2Int_sq_magnitude_overflows(v),
                             Vec2Int_sq_magnitude(v))
    /\ UNCHANGED <<sprites, list, game, button>>

\* a.sq_dist(b) on Vec2Int
Vec2IntSqDist(build, a, b) ==
    /\ Idle
    /\ ret' = [op |-> "Vec2Int::sq_dist", a |-> a, b |-> b, build |-> build]
                  @@ Outcome(build, Vec2Int_sq_dist_overflows(a, b),
                             Vec2Int_sq_dist(a, b))
    /\ UNCHANGED <<sprites, list, game, button>>

\* a - b on Vec3, and the comparison a - b == -(-a + b)
Vec3Sub(a, b) ==
    /\ Idle
    /\ ret' = [op |-> "Vec3::sub", a |-> a, b |-> b, val |-> Vec3_sub(a, b),
               eq |-> Vec3_eq(Vec3_sub(a, b),
                              Vec3_neg(Vec3_add(Vec3_neg(a), b)))]
    /\ UNCHANGED <<sprites, list, game, button>>

\* a - b on Vec3Int, and the comparison a - b == -(-a + b)
Vec3IntSub(a, b) ==
    /\ Idle
    /\ ret' = [op |-> "Vec3Int::sub", a |-> a, b |-> b,
               val |-> Vec3Int_sub(a, b),
               eq |-> Vec3Int_sub(a, b)
                          = Vec3Int_neg(Vec3Int_add(Vec3Int_neg(a), b))]
    /\ UNCHANGED <<sprites, list, game, button>>

\* v.rounded() on Vec2
Vec2Rounded(v) ==
    /\ Idle
    /\ ret' = [op |-> "Vec2::rounded", v |-> v, val |-> Vec2_rounded(v)]
    /\ UNCHANGED <<sprites, list, game, button>>

\* v.rounded() on Vec3
Vec3Rounded(v) ==
    /\ Idle
    /\ ret' = [op |-> "Vec3::rounded", v |-> v, val |-> Vec3_rounded(v)]
    /\ UNCHANGED <<sprites, list, game, button>>

\* game.run(func) is called; SDL comes up (ok) or not
Run(ok) ==
    /\ game.pc = "idle"
    /\ game.runs < MaxRuns
    /\ game' = Game_run(game, ok)
    /\ UNCHANGED <<sprites, list, ret, button>>

\* the test at the head of the loop, with or without a Quit event pending
LoopCheck(quit) ==
    /\ game.pc = "check"
    /\ quit \/ game.stopped \/ game.calls < MaxFrames
    /\ game' = loop_check(game, quit)
    /\ UNCHANGED <<sprites, list, ret, button>>

\* ctx.clear() in the loop
CtxClear ==
    /\ game.pc = "clear"
    /\ game' = ctx_clear(game)
    /\ UNCHANGED <<sprites, list, ret, button>>

\* the loop calls func
CallFunc ==
    /\ game.pc = "callback"
    /\ game' = call_func(game)
    /\ UNCHANGED <<sprites, list, ret, button>>

\* func returns to the loop
FuncReturns ==
    /\ game.pc = "in_func"
    /\ game' = func_returns(game)
    /\ UNCHANGED <<sprites, list, ret, button>>

\* ctx.update() in the loop
CtxUpdate ==
    /\ game.pc = "present"
    /\ game' = ctx_update(game)
    /\ UNCHANGED <<sprites, list, ret, button>>

\* game.terminate(), called by the callback or outside run (the flag is a
\* Cell, so no other thread can hold the Game)
Terminate ==
    /\ game.pc \in {"idle", "in_func"}
    /\ game' = terminate(game)
    /\ UNCHANGED <<sprites, list, ret, button>>

\* button.clicked(&m, f): the n-th call on this button, with the mouse
\* state m and the answer coll of m.coll_with_sprite
Clicked(m, coll) ==
    LET n == IF ret.op = "clicked" THEN ret.n + 1 ELSE 1
        r == clicked(button, m, coll)
    IN  /\ n <= MaxClicks
        /\ button' = r.button
        /\ ret' = [op |-> "clicked", n |-> n, m |-> m, coll |-> coll,
                   f_calls |-> r.f_calls]
        /\ UNCHANGED <<sprites, list, game>>

(* --------------------------- specifications ---------------------------- *)

\* two sprites, moved and tested against each other and against points
Init ==
    /\ sprites \in [1..2 -> NewSprites]
    /\ list = <<>>
    /\ ret = NoCall
    /\ game = Game_new
    /\ button = Button_new(<<1, 1>>, 0, 0)

Next ==
    \/ \E i \in 1..2, d \in Deltas : Translate(i, d)
    \/ \E i \in 1..2, p \in SetPoints : SetPosition(i, p)
    \/ \E i \in 1..2, j \in 1..2 : i # j /\ CheckForCollision(i, j)
    \/ \E p \in Points : CheckForCollisionWithPoint(1, p)

Spec == Init /\ [][Next]_vars

\* the sprites tested against the collection: every image, centered on the
\* row y = 0
ProbeSprites == {s \in NewSprites : position(s).y = 0}

\* one sprite tested against a growing collection, and the members of the
\* collection tested against the collection that holds them
InitColl ==
    /\ \E s \in ProbeSprites :
          sprites = [i \in 1..2 |-> IF i = 1 THEN s ELSE Sprite_new(<<1, 1>>, 0, 0)]
    /\ list = <<>>
    /\ ret = NoCall
    /\ game = Game_new
    /\ button = Button_new(<<1, 1>>, 0, 0)

NextColl ==
    \/ \E img \in Images, p \in PushAt : Push(img, p)
    \/ \E self \in 0..MaxLen : CheckForCollisionWithCollection(self)

SpecColl == InitColl /\ [][NextColl]_vars

\* one sprite driven through every method that moves or turns it
InitMove ==
    /\ \E s \in NewSprites :
          sprites = [i \in 1..2 |-> IF i = 1 THEN s ELSE Sprite_new(<<1, 1>>, 0, 0)]
    /\ list = <<>>
    /\ ret = NoCall
    /\ game = Game_new
    /\ button = Button_new(<<1, 1>>, 0, 0)

NextMove ==
    \/ \E d \in Deltas : Translate(1, d)
    \/ \E v \in Vels : Up(1, v)
    \/ \E v \in Vels : Down(1, v)
    \/ \E v \in Vels : Left(1, v)
    \/ \E v \in Vels : Right(1, v)
    \/ \E p \in SetPoints : SetPosition(1, p)
    \/ \E a \in Angles : SetAngle(1, a)

SpecMove == InitMove /\ [][NextMove]_vars

\* the collection the turned sprites are tested against
AngleList == <<Sprite_new(<<1, 1>>, 0, 0), Sprite_new(<<3, 2>>, 2, 0)>>

\* sprites and members of a collection are turned, and every collision check
\* is made on them
InitAngle ==
    /\ \E s \in ProbeSprites :
          sprites = [i \in 1..2 |-> IF i = 1 THEN s ELSE Sprite_new(<<2, 3>>, 1, 0)]
    /\ list = AngleList
    /\ ret = NoCall
    /\ game = Game_new
    /\ button = Button_new(<<1, 1>>, 0, 0)

NextAngle ==
    \/ \E i \in 1..2, a \in Angles : SetAngle(i, a)
    \/ \E k \in 1..Len(AngleList), a \in Angles : SetAngleMember(k, a)
    \/ \E i \in 1..2 : Angle(i)
    \/ \E i \in 1..2, j \in 1..2 : i # j /\ CheckForCollision(i, j)
    \/ \E p \in Points : CheckForCollisionWithPoint(1, p)
    \/ \E self \in 0..Len(AngleList) : CheckForCollisionWithCollection(self)

SpecAngle == InitAngle /\ [][NextAngle]_vars

\* the sprites put into the collections of SpecList
ListSprites == {<<img, <<0, 0>>>> : img \in Images}

RECURSIVE SeqsUpTo(_)
\* the collections of at most n sprites handed to concat
SeqsUpTo(n) ==
    IF n = 0 THEN {<<>>}
    ELSE SeqsUpTo(n - 1) \cup
         {Append(q, Sprite_new(e[1], e[2][1], e[2][2])) :
             q \in {t \in SeqsUpTo(n - 1) : Len(t) = n - 1}, e \in ListSprites}

\* one collection driven through every method of SpriteCollection
InitList ==
    /\ sprites = [i \in 1..2 |-> Sprite_new(<<1, 1>>, 0, 0)]
    /\ list = <<>>
    /\ ret = NoCall
    /\ game = Game_new
    /\ button = Button_new(<<1, 1>>, 0, 0)

NextList ==
    \/ \E e \in ListSprites : Push(e[1], e[2])
    \/ \E e \in ListSprites, index \in 0..(MaxLen + 1) : Insert(e[1], e[2], index)
    \/ Pop
    \/ \E index \in 0..(MaxLen + 1) : Remove(index)
    \/ Clear
    \/ \E other \in SeqsUpTo(MaxLen) : Concat(other)
    \/ \E index \in 0..(MaxLen + 1) : Get(index)
    \/ IsEmpty

SpecList == InitList /\ [][NextList]_vars

\* i32 components and scalars handed to the Vec2Int operators
IntVals == {-2, -1, 0, 1, 3}

\* f32 components and scalars handed to the Vec2 operators
FloatVals == {Fin(-29), Fin(0), Fin(10), Fin(15), Fin(29), Inf, NegInf, NaN}

Vec2Ints == [x : IntVals, y : IntVals]

Vec2s == [x : FloatVals, y : FloatVals]

Vec3Ints == [x : {-1, 0, 2}, y : {-1, 0, 2}, z : {-1, 0, 2}]

Vec3s == [x : {Fin(-15), Inf, NaN}, y : {Fin(10), Inf, NaN},
          z : {Fin(0), NegInf}]

\* no sprite is involved: the Direction and vector operators are called on
\* values
InitVec ==
    /\ sprites = [i \in 1..2 |-> Sprite_new(<<1, 1>>, 0, 0)]
    /\ list = <<>>
    /\ ret = NoCall
    /\ game = Game_new
    /\ button = Button_new(<<1, 1>>, 0, 0)

NextVec ==
    \/ \E d \in Directions : Flipped(d)
    \/ \E d \in Directions : FlipX(d)
    \/ \E d \in Directions : FlipY(d)
    \/ \E d \in Directions : DirectionNeg(d)
    \/ \E d \in Directions : Vec2FromDirection(d)
    \/ \E d \in Directions : Vec2IntFromDirection(d)
    \/ \E d \in Directions, k \in FloatVals : DirectionMulF32(d, k)
    \/ \E d \in Directions, k \in IntVals : DirectionMulI32(d, k)
    \/ \E a \in Vec2s, b \in Vec2s : Vec2Sub(a, b)
    \/ \E build \in Builds, a \in Vec2Ints, b \in Vec2Ints :
           Vec2IntSub(build, a, b)
    \/ \E a \in Vec3s, b \in Vec3s : Vec3Sub(a, b)
    \/ \E a \in Vec3Ints, b \in Vec3Ints : Vec3IntSub(a, b)
    \/ \E v \in Vec2s : Vec2Rounded(v)
    \/ \E v \in [x : FloatVals, y : FloatVals, z : FloatVals] : Vec3Rounded(v)

SpecVec == InitVec /\ [][NextVec]_vars

\* i32 components and scalars at and near the limits of the type
EdgeInts == {I32_MIN, -1, 0, 3, 46341, I32_MAX}

EdgeVec2Ints == [x : EdgeInts, y : {0, 3, 46341}]

\* the sprites of SpecI32: a small image and one 25000 wide, at the origin
\* and 50000 to the right of it
FarSprites ==
    {Sprite_new(img, x, 0) : img \in {<<1, 1>>, <<25000, 1>>}, x \in {0, 50000}}

\* points handed to check_for_collision_with_point in SpecI32
FarPoints == {<<0, 0>>, <<I32_MIN, 0>>, <<0, 46341>>}

\* the integer vector operators and the collision checks on values up to the
\* limits of i32, under both builds
InitI32 ==
    /\ sprites \in {f \in [1..2 -> FarSprites] : position(f[1]).x = 0}
    /\ list = <<Sprite_new(<<25000, 1>>, 0, 0)>>
    /\ ret = NoCall
    /\ game = Game_new
    /\ button = Button_new(<<1, 1>>, 0, 0)

NextI32 ==
    \/ \E build \in Builds, v \in EdgeVec2Ints : Vec2IntNeg(build, v)
    \/ \E build \in Builds, a \in EdgeVec2Ints, b \in EdgeVec2Ints :
           Vec2IntAdd(build, a, b)
    \/ \E build \in Builds, a \in EdgeVec2Ints, b \in EdgeVec2Ints :
           Vec2IntSub(build, a, b)
    \/ \E build \in Builds, v \in EdgeVec2Ints, k \in EdgeInts :
           Vec2IntMul(build, v, k)
    \/ \E v \in EdgeVec2Ints, k \in EdgeInts : Vec2IntDiv(v, k)
    \/ \E build \in Builds, v \in EdgeVec2Ints : Vec2IntSqMagnitude(build, v)
    \/ \E build \in Builds, a \in EdgeVec2Ints, b \in EdgeVec2Ints :
           Vec2IntSqDist(build, a, b)
    \/ Idle /\ CheckForCollision(1, 2)
    \/ \E p \in FarPoints : Idle /\ CheckForCollisionWithPoint(1, p)
    \/ Idle /\ CheckForCollisionWithCollection(0)

SpecI32 == InitI32 /\ [][NextI32]_vars

\* one Game: run is called up to MaxRuns times, terminate whenever the
\* thread is outside run or inside the callback
InitGame ==
    /\ sprites = [i \in 1..2 |-> Sprite_new(<<1, 1>>, 0, 0)]
    /\ list = <<>>
    /\ ret = NoCall
    /\ game = Game_new
    /\ button = Button_new(<<1, 1>>, 0, 0)

NextGame ==
    \/ \E ok \in BOOLEAN : Run(ok)
    \/ \E quit \in BOOLEAN : LoopCheck(quit)
    \/ CtxClear
    \/ CallFunc
    \/ FuncReturns
    \/ CtxUpdate
    \/ Terminate

SpecGame == InitGame /\ [][NextGame]_vars

\* the loop keeps running and the callback returns
SpecGameLive ==
    /\ SpecGame
    /\ WF_vars(\E quit \in BOOLEAN : LoopCheck(quit))
    /\ WF_vars(CtxClear)
    /\ WF_vars(CallFunc)
    /\ WF_vars(FuncReturns)
    /\ WF_vars(CtxUpdate)

\* the pressed buttons of a mouse state, in the order of
\* pressed_mouse_buttons
PressedButtons ==
    {<<>>, <<"Left">>, <<"Middle">>, <<"Right">>, <<"Left", "Right">>,
     <<"Middle", "Left">>, <<"Right", "Left">>}

\* struct MouseRepr
MouseReprs == [buttons : PressedButtons, x : {0, 1}, y : {0}]

\* a button made by Button::new and driven by clicked calls only
InitButton ==
    /\ sprites = [i \in 1..2 |-> Sprite_new(<<1, 1>>, 0, 0)]
    /\ list = <<>>
    /\ ret = NoCall
    /\ game = Game_new
    /\ button \in {Button_new(img, 0, 0) : img \in Images}

NextButton == \E m \in MouseReprs, coll \in BOOLEAN : Clicked(m, coll)

SpecButton == InitButton /\ [][NextButton]_vars

(* ------------------------------ claims --------------------------------- *)

\* the arguments of the last check_for_collision call
ArgA == sprites[ret.i]

ArgB == sprites[ret.j]

Abs(n) == IF n < 0 THEN 0 - n ELSE n

Rad(s) == Max(s.rect.w, s.rect.h)

Threshold(a, b) == (Rad(a) + Rad(b)) * (Rad(a) + Rad(b))

Dx(a, b) == position(a).x - position(b).x

Dy(a, b) == position(a).y - position(b).y

\* the extents share interior on the x axis / at least a boundary point
OpenX(A, B) == Max(A.x, B.x) < Min(A.x + A.w, B.x + B.w)

OpenY(A, B) == Max(A.y, B.y) < Min(A.y + A.h, B.y + B.h)

ClosedX(A, B) == Max(A.x, B.x) <= Min(A.x + A.w, B.x + B.w)

ClosedY(A, B) == Max(A.y, B.y) <= Min(A.y + A.h, B.y + B.h)

Overlap(A, B) == OpenX(A, B) /\ OpenY(A, B)

\* a shared edge segment of positive length and no shared interior
EdgeTouch(A, B) ==
    \/ OpenX(A, B) /\ ClosedY(A, B) /\ ~OpenY(A, B)
    \/ OpenY(A, B) /\ ClosedX(A, B) /\ ~OpenX(A, B)

\* C1: check_for_collision(a, b) is true iff the rectangles overlap, where
\* rectangles that only touch along an edge count as colliding.
C1_OverlapOrEdgeTouch ==
    ret.op = "check_for_collision" =>
        (ret.val <=> (Overlap(ArgA.rect, ArgB.rect) \/ EdgeTouch(ArgA.rect, ArgB.rect)))

\* C2: with r = max(width, height) and T = (r_a + r_b)^2, check_for_collision
\* is false when dx^2 > T or dy^2 > T, and in every other case it is exactly
\* the result of the rectangle-intersection test.
C2_PrefilterThenExact ==
    ret.op = "check_for_collision" =>
        ret.val = (IF Dx(ArgA, ArgB) * Dx(ArgA, ArgB) > Threshold(ArgA, ArgB)
                      \/ Dy(ArgA, ArgB) * Dy(ArgA, ArgB) > Threshold(ArgA, ArgB)
                   THEN FALSE
                   ELSE has_intersection(ArgA.rect, ArgB.rect))

\* the pre-filter let the pair through and the exact test said no
C2_Witness ==
    /\ ret.op = "check_for_collision"
    /\ Dx(ArgA, ArgB) * Dx(ArgA, ArgB) <= Threshold(ArgA, ArgB)
    /\ Dy(ArgA, ArgB) * Dy(ArgA, ArgB) <= Threshold(ArgA, ArgB)
    /\ Dx(ArgA, ArgB) # 0
    /\ ~has_intersection(ArgA.rect, ArgB.rect)
    /\ ret.val = FALSE

\* C3: the pre-filter is safe: when the rectangles intersect, neither squared
\* center-distance component exceeds (max(w_a,h_a) + max(w_b,h_b))^2, so
\* check_for_collision equals the exact rectangle-intersection result; the
\* 10x10 sprites centered on (0,0) and (5,5) collide.
C3_PrefilterSafe ==
    /\ ret.op = "check_for_collision" =>
          /\ has_intersection(ArgA.rect, ArgB.rect) =>
                /\ Dx(ArgA, ArgB) * Dx(ArgA, ArgB) <= Threshold(ArgA, ArgB)
                /\ Dy(ArgA, ArgB) * Dy(ArgA, ArgB) <= Threshold(ArgA, ArgB)
          /\ ret.val = has_intersection(ArgA.rect, ArgB.rect)
    /\ check_for_collision(Sprite_new(<<10, 10>>, 0, 0), Sprite_new(<<10, 10>>, 5, 5))

\* intersecting rectangles with different centers were reported as colliding
C3_Witness ==
    /\ ret.op = "check_for_collision"
    /\ has_intersection(ArgA.rect, ArgB.rect)
    /\ Dx(ArgA, ArgB) # 0
    /\ Dy(ArgA, ArgB) # 0
    /\ ret.val = TRUE

\* C4: collision is symmetric: check_for_collision(a, b) equals
\* check_for_collision(b, a).
C4_Symmetric ==
    ret.op = "check_for_collision" => ret.val = check_for_collision(ArgB, ArgA)

\* two sprites of different sizes collide, asked in the order (2, 1)
C4_Witness ==
    /\ ret.op = "check_for_collision"
    /\ ret.i = 2
    /\ ArgA.rect.w # ArgB.rect.w
    /\ ret.val = TRUE

\* C5: two sprites with the same position() and widths and heights of at
\* least 1 collide, however translate and set_position brought them there.
C5_SameCenterCollides ==
    (/\ ret.op = "check_for_collision"
     /\ position(ArgA) = position(ArgB)
     /\ ArgA.rect.w >= 1 /\ ArgA.rect.h >= 1
     /\ ArgB.rect.w >= 1 /\ ArgB.rect.h >= 1) => ret.val = TRUE

\* same center, different rectangles
C5_Witness ==
    /\ ret.op = "check_for_collision"
    /\ position(ArgA) = position(ArgB)
    /\ ArgA.rect # ArgB.rect
    /\ ret.val = TRUE

\* C6: if the centers are farther apart on the x axis or on the y axis than
\* max(w_a,h_a) + max(w_b,h_b), check_for_collision is false; the 10x10
\* sprites centered on (0,0) and (100,100) do not collide.
C6_FarApartNeverCollide ==
    /\ (/\ ret.op = "check_for_collision"
        /\ \/ Abs(Dx(ArgA, ArgB)) > Rad(ArgA) + Rad(ArgB)
           \/ Abs(Dy(ArgA, ArgB)) > Rad(ArgA) + Rad(ArgB)) => ret.val = FALSE
    /\ ~check_for_collision(Sprite_new(<<10, 10>>, 0, 0), Sprite_new(<<10, 10>>, 100, 100))

\* far apart on the x axis, level on the y axis
C6_Witness ==
    /\ ret.op = "check_for_collision"
    /\ Abs(Dx(ArgA, ArgB)) > Rad(ArgA) + Rad(ArgB)
    /\ Dy(ArgA, ArgB) = 0
    /\ ret.val = FALSE

\* C7: check_for_collision_with_point is true iff (center_x - p.x)^2 <= r^2
\* and (center_y - p.y)^2 <= r^2 with r = max(width, height); no
\* point-in-rectangle test follows.
C7_PointCheck ==
    ret.op = "check_for_collision_with_point" =>
        LET s == sprites[ret.i]
            ddx == position(s).x - ret.point[1]
            ddy == position(s).y - ret.point[2]
        IN  ret.val <=> (ddx * ddx <= Rad(s) * Rad(s) /\ ddy * ddy <= Rad(s) * Rad(s))

\* a point outside the rectangle is reported as colliding
C7_Witness ==
    /\ ret.op = "check_for_collision_with_point"
    /\ ret.val = TRUE
    /\ \/ ret.point[1] < sprites[ret.i].rect.x
       \/ ret.point[1] >= sprites[ret.i].rect.x + sprites[ret.i].rect.w
       \/ ret.point[2] < sprites[ret.i].rect.y
       \/ ret.point[2] >= sprites[ret.i].rect.y + sprites[ret.i].rect.h

\* C8: check_for_collision_with_collection returns exactly the members that
\* collide with the sprite, each once per occurrence and in the order of the
\* collection; the result is empty when no member collides.
C8_CollectionFilter ==
    ret.op = "check_for_collision_with_collection" =>
        /\ \A k \in 1..Len(ret.val) : ret.val[k] \in 1..Len(list)
        /\ \A k \in 1..(Len(ret.val) - 1) : ret.val[k] < ret.val[k + 1]
        /\ {ret.val[k] : k \in 1..Len(ret.val)}
              = {m \in 1..Len(list) : check_for_collision(Queried(ret.self), list[m])}

\* two members collide with the sprite, a member between or around them does not
C8_Witness ==
    /\ ret.op = "check_for_collision_with_collection"
    /\ ret.self = 0
    /\ Len(ret.val) = 2
    /\ Len(list) = 3

\* C9: no self-exclusion: when the queried sprite is a member of the
\* collection, that member is in the result whenever
\* check_for_collision(sprite, sprite) is true.
C9_NoSelfExclusion ==
    (ret.op = "check_for_collision_with_collection" /\ ret.self >= 1) =>
        ((\E k \in 1..Len(ret.val) : ret.val[k] = ret.self)
            <=> check_for_collision(list[ret.self], list[ret.self]))

\* the queried member is in its own result, next to another member
C9_Witness ==
    /\ ret.op = "check_for_collision_with_collection"
    /\ ret.self >= 1
    /\ \E k \in 1..Len(ret.val) : ret.val[k] = ret.self
    /\ Len(ret.val) >= 2

\* C10: translate(delta) adds delta.x to the x-origin and subtracts delta.y
\* from the y-origin, so position() changes by (+delta.x, -delta.y); width,
\* height and angle are unchanged.
C10_Translate ==
    ret.op = "translate" =>
        LET a == sprites[ret.i]
            b == ret.before
        IN  /\ a.rect.x = b.rect.x + ret.delta[1]
            /\ a.rect.y = b.rect.y - ret.delta[2]
            /\ a.rect.w = b.rect.w /\ a.rect.h = b.rect.h
            /\ a.angle = b.angle
            /\ position(a).x = position(b).x + ret.delta[1]
            /\ position(a).y = position(b).y - ret.delta[2]

\* translating by (3, -4) moved the stored origin by (+3, +4)
C10_Witness ==
    /\ ret.op = "translate"
    /\ ret.delta = <<3, -4>>
    /\ sprites[ret.i].rect.x = ret.before.rect.x + 3
    /\ sprites[ret.i].rect.y = ret.before.rect.y + 4

\* C11: after set_position(p), position() is exactly p in both components,
\* for every width and height (odd ones included) and every earlier position.
C11_SetPosition ==
    ret.op = "set_position" =>
        /\ position(sprites[ret.i]).x = ret.point[1]
        /\ position(sprites[ret.i]).y = ret.point[2]

\* an odd-sized sprite was re-centered on a point with a non-zero y
C11_Witness ==
    /\ ret.op = "set_position"
    /\ sprites[ret.i].rect.w = 3
    /\ ret.point = <<-1, 2>>
    /\ position(sprites[ret.i]) = [x |-> -1, y |-> 2]

\* the collection with its members turned to the angles f[1], f[2], ...
TurnedList(f) == [k \in 1..Len(list) |-> set_angle(list[k], f[k])]

\* the results of the three collision checks are the same for every choice
\* of the angles of the sprites involved
AngleFree ==
    /\ ret.op = "check_for_collision" =>
          \A a \in Angles, b \in Angles :
              ret.val = check_for_collision(set_angle(ArgA, a), set_angle(ArgB, b))
    /\ ret.op = "check_for_collision_with_point" =>
          \A a \in Angles :
              ret.val = check_for_collision_with_point(set_angle(sprites[ret.i], a), ret.point)
    /\ ret.op = "check_for_collision_with_collection" =>
          \A a \in Angles, f \in [1..Len(list) -> Angles] :
              ret.val = check_for_collision_with_collection(
                            set_angle(Queried(ret.self), a), TurnedList(f))

\* C12: the angle is drawing metadata only: it is 0 until set_angle is
\* called, angle() returns what the most recent set_angle stored (set_angle
\* stores its argument and no other call changes it), set_angle leaves the
\* rectangle alone, and no collision check depends on any sprite's angle.
C12_AngleIsMetadata ==
    /\ [](/\ ret.op = "none" => \A i \in 1..2 : angle(sprites[i]) = 0
          /\ ret.op = "set_angle" =>
                /\ angle(sprites[ret.i]) = ret.angle
                /\ sprites[ret.i].rect = ret.before.rect
          /\ ret.op = "angle" => ret.val = sprites[ret.i].angle
          /\ AngleFree)
    /\ [][\A i \in 1..2 :
             \/ ret'.op = "set_angle" /\ ret'.i = i
             \/ sprites'[i].angle = sprites[i].angle]_vars

\* sprites turned to different non-zero angles were found to collide
C12_Witness ==
    /\ ret.op = "check_for_collision"
    /\ sprites[1].angle = 90
    /\ sprites[2].angle = 45
    /\ ret.val = TRUE

\* C13: translate, up, down, left, right, set_position and set_angle never
\* change the width or the height of the sprite's rectangle.
C13_SizeFixed ==
    [][\A i \in 1..2 :
          /\ sprites'[i].rect.w = sprites[i].rect.w
          /\ sprites'[i].rect.h = sprites[i].rect.h]_vars

\* a 2x3 sprite has just been moved to the left
C13_Witness ==
    /\ ret.op = "left"
    /\ ret.before.rect.w = 2 /\ ret.before.rect.h = 3
    /\ sprites[1].rect.w = 2 /\ sprites[1].rect.h = 3
    /\ sprites[1].angle = 45

\* C14: remove(index) with index < len() returns the element at index, keeps
\* the order of the others, moving the later ones one place left, and len()
\* drops by one; with index >= len() the call panics: the index is not
\* clamped and the call does not return as if nothing happened.
C14_Remove ==
    ret.op = "remove" =>
        IF ret.index < Len(ret.before)
        THEN /\ ~ret.panic
             /\ ret.val = Some(ret.before[ret.index + 1])
             /\ list = SubSeq(ret.before, 1, ret.index)
                          \o SubSeq(ret.before, ret.index + 2, Len(ret.before))
             /\ len(list) = len(ret.before) - 1
        ELSE /\ ret.panic
             /\ ret.val = None
             /\ list = ret.before

\* remove past the end of a non-empty collection panicked
C14_Witness ==
    /\ ret.op = "remove"
    /\ Len(ret.before) = 2
    /\ ret.index = 2
    /\ ret.panic

\* C15: after a.concat(b), a holds its previous elements in order followed
\* by the elements of b in order, a.len() is the sum of the two lengths, and
\* b is empty.
C15_Concat ==
    ret.op = "concat" =>
        /\ list = ret.before \o ret.other
        /\ len(list) = len(ret.before) + len(ret.other)
        /\ ret.other_after = <<>>

\* a non-empty collection took over two sprites
C15_Witness ==
    /\ ret.op = "concat"
    /\ Len(ret.before) = 1
    /\ Len(ret.other) = 2
    /\ ret.other[1] # ret.other[2]
    /\ ret.other_after = <<>>

\* C16: every method acts on the collection as the same operation acts on a
\* plain list: push appends, insert (index <= len) places the sprite at index
\* and shifts the later ones right, pop takes the last element or gives None
\* on an empty collection, remove (index < len) takes the element at index,
\* clear empties, concat appends; get(i) is the i-th element or None when
\* i >= len(), and is_empty() == (len() == 0).
C16_PlainList ==
    /\ ret.op = "push" => list = ret.before \o <<ret.s>>
    /\ (ret.op = "insert" /\ ret.index <= Len(ret.before)) =>
          /\ ~ret.panic
          /\ list = SubSeq(ret.before, 1, ret.index) \o <<ret.s>>
                       \o SubSeq(ret.before, ret.index + 1, Len(ret.before))
    /\ ret.op = "pop" =>
          IF ret.before = <<>>
          THEN ret.val = None /\ list = <<>>
          ELSE /\ ret.val = Some(ret.before[Len(ret.before)])
               /\ list = SubSeq(ret.before, 1, Len(ret.before) - 1)
    /\ (ret.op = "remove" /\ ret.index < Len(ret.before)) =>
          list = SubSeq(ret.before, 1, ret.index)
                    \o SubSeq(ret.before, ret.index + 2, Len(ret.before))
    /\ ret.op = "clear" => list = <<>>
    /\ ret.op = "concat" => list = ret.before \o ret.other
    /\ ret.op = "get" =>
          ret.val = (IF ret.index < Len(list) THEN Some(list[ret.index + 1]) ELSE None)
    /\ ret.op = "is_empty" => (ret.val <=> (ret.len = 0)) /\ ret.len = Len(list)

\* a sprite was inserted between two equal sprites
C16_Witness ==
    /\ ret.op = "insert"
    /\ ret.index = 1
    /\ Len(ret.before) = 2
    /\ ret.before[1] = ret.before[2]
    /\ ret.s # ret.before[1]
    /\ list[2] = ret.s

\* the unit vector of a direction on a screen whose y axis points down
UnitX(d) == IF d = "East" THEN 1 ELSE IF d = "West" THEN -1 ELSE 0

UnitY(d) == IF d = "South" THEN 1 ELSE IF d = "North" THEN -1 ELSE 0

\* C17: for every Direction d, d.flipped() is d.flip_x().flip_y(), and -d is
\* d.flipped()
C17_Flipped ==
    /\ ret.op = "flipped" => ret.val = flip_y(flip_x(ret.d))
    /\ ret.op = "Direction::neg" => ret.val = flipped(ret.d)

C17_Witness == ret.op = "Direction::neg" /\ ret.d = "East" /\ ret.val = "West"

\* C18: flip_x swaps East and West and leaves North and South alone, flip_y
\* swaps North and South and leaves East and West alone, and the vector of
\* d.flipped() is the negation of the vector of d, as Vec2Int and as Vec2
C18_FlipsNegate ==
    /\ ret.op = "flip_x" =>
           ret.val = (IF ret.d = "East" THEN "West"
                      ELSE IF ret.d = "West" THEN "East" ELSE ret.d)
    /\ ret.op = "flip_y" =>
           ret.val = (IF ret.d = "North" THEN "South"
                      ELSE IF ret.d = "South" THEN "North" ELSE ret.d)
    /\ ret.op = "flipped" =>
           /\ Vec2Int_from_Direction(ret.val)
                  = Vec2Int_neg(Vec2Int_from_Direction(ret.d))
           /\ Vec2_eq(Vec2_from_Direction(ret.val),
                      Vec2_neg(Vec2_from_Direction(ret.d)))

C18_Witness == ret.op = "flipped" /\ ret.d = "North" /\ ret.val = "South"

\* C19: a Direction converts to North = (0,-1), South = (0,1), East = (1,0),
\* West = (-1,0), the same as Vec2Int and as Vec2, and a Direction times a
\* scalar k is that unit vector with each component multiplied by k
C19_UnitVectors ==
    /\ ret.op = "Vec2Int::from" =>
           ret.val = [x |-> UnitX(ret.d), y |-> UnitY(ret.d)]
    /\ ret.op = "Vec2::from" =>
           ret.val = [x |-> Fin(10 * UnitX(ret.d)), y |-> Fin(10 * UnitY(ret.d))]
    /\ ret.op = "Direction::mul_i32" =>
           ret.val = [x |-> UnitX(ret.d) * ret.k, y |-> UnitY(ret.d) * ret.k]
    /\ ret.op = "Direction::mul_f32" =>
           ret.val = [x |-> FMul(Fin(10 * UnitX(ret.d)), ret.k),
                      y |-> FMul(Fin(10 * UnitY(ret.d)), ret.k)]

C19_Witness ==
    /\ ret.op = "Direction::mul_i32"
    /\ ret.d = "North"
    /\ ret.k = 3
    /\ ret.val = [x |-> 0, y |-> -3]

\* some component of the vector is a NaN
HasNaN(v) == \E f \in DOMAIN v : v[f].k = "nan"

\* C20 as stated: for all vectors a and b of the same type, the comparison
\* a - b == -(-a + b) is true
C20_SubIdentityExact ==
    ret.op \in {"Vec2::sub", "Vec2Int::sub", "Vec3::sub", "Vec3Int::sub"}
        => ret.eq

\* C20: a - b is -(-a + b) component by component, negation being the
\* multiplication by -1; the comparison a - b == -(-a + b) is true for the
\* integer vectors, and for the float vectors exactly when no component of
\* the difference is a NaN
C20_SubIdentity ==
    /\ ret.op \in {"Vec2Int::sub", "Vec3Int::sub"} =>
           /\ \A f \in DOMAIN ret.val :
                  ret.val[f] = (-1) * (((-1) * ret.a[f]) + ret.b[f])
           /\ ret.eq
    /\ ret.op \in {"Vec2::sub", "Vec3::sub"} =>
           /\ \A f \in DOMAIN ret.val :
                  ret.val[f] = FMul(FAdd(FMul(ret.a[f], Fin(-10)), ret.b[f]),
                                    Fin(-10))
           /\ ret.eq <=> ~HasNaN(ret.val)

C20_Witness ==
    /\ ret.op = "Vec2::sub"
    /\ ret.a = [x |-> Inf, y |-> Fin(15)]
    /\ ret.b = [x |-> Inf, y |-> Fin(-29)]
    /\ ret.val = [x |-> NaN, y |-> Fin(44)]
    /\ ~ret.eq

\* the integer part of t tenths: the whole number of largest magnitude that
\* is not beyond t / 10, with the sign of t
Trunc(t) ==
    CHOOSE n \in -Abs(t)..Abs(t) :
        /\ 10 * Abs(n) <= Abs(t)
        /\ Abs(t) < 10 * (Abs(n) + 1)
        /\ n * t >= 0

TotalOps ==
    {"Vec2Int::neg", "Vec2Int::add", "Vec2Int::sub", "Vec2Int::mul",
     "Vec2Int::div", "Vec2Int::sq_magnitude", "Vec2Int::sq_dist",
     "check_for_collision", "check_for_collision_with_point",
     "check_for_collision_with_collection"}

\* C22 as stated: every vector operation and every collision check returns
\* a value, without a fault, for every i32 input and every valid rectangle
C22_Total == ret.op \in TotalOps => ~ret.panic

\* C30: where no intermediate result of a - b and of b - a overflows, a - b
\* is the component-wise difference, and where neither sq_dist(a, b) nor
\* sq_dist(b, a) overflows, sq_dist(a, b) is (a.x - b.x)^2 + (a.y - b.y)^2
\* and equals sq_dist(b, a)
C30_Difference ==
    /\ (/\ ret.op = "Vec2Int::sub"
        /\ ~Vec2Int_sub_overflows(ret.a, ret.b)
        /\ ~Vec2Int_sub_overflows(ret.b, ret.a)) =>
           /\ ~ret.panic
           /\ ret.val = [x |-> ret.a.x - ret.b.x, y |-> ret.a.y - ret.b.y]
    /\ (/\ ret.op = "Vec2Int::sq_dist"
        /\ ~Vec2Int_sq_dist_overflows(ret.a, ret.b)
        /\ ~Vec2Int_sq_dist_overflows(ret.b, ret.a)) =>
           /\ ~ret.panic
           /\ ret.val = (ret.a.x - ret.b.x) * (ret.a.x - ret.b.x)
                            + (ret.a.y - ret.b.y) * (ret.a.y - ret.b.y)
           /\ ret.val = Vec2Int_sq_dist(ret.b, ret.a)

C30_Witness ==
    /\ ret.op = "Vec2Int::sq_dist"
    /\ ret.a = [x |-> 3, y |-> 0]
    /\ ret.b = [x |-> -1, y |-> 3]
    /\ ~ret.panic
    /\ ret.val = 25

\* C23: every iteration of the loop of run is check, clear, callback,
\* present in this order, each once: a clear follows a check, the callback
\* follows a clear, a present follows the callback, a check starts the run
\* or follows a present, and after the callback nothing happens before the
\* present
C23_FrameOrder ==
    /\ [](/\ game.last = "check" => game.prev \in {"none", "present"}
          /\ game.last = "clear" => game.prev = "check"
          /\ game.last = "func" => game.prev = "clear"
          /\ game.last = "present" => game.prev = "func"
          /\ game.last = "func" => game.pc \in {"in_func", "present"})
    /\ [][game.last = "func" =>
              /\ game'.calls = game.calls
              /\ game'.last \in {"func", "present"}]_vars

C23_Witness ==
    /\ game.pc = "check"
    /\ game.calls = 2
    /\ game.last = "present"
    /\ game.prev = "func"

\* C24: once terminate was called inside the callback the iteration is
\* finished with a present, the callback is not invoked again and run
\* returns Ok(()); a Quit event found by the check ends the loop there,
\* with Ok(()) and without an invocation of the callback in that iteration
C24_Terminate ==
    /\ [][game.stopped /\ game.pc # "idle" => game'.calls = game.calls]_vars
    /\ [](game.pc = "idle" /\ game.result = "Ok" =>
              /\ game.last = "check"
              /\ game.prev \in {"none", "present"})
    /\ [](game.quit =>
              /\ game.pc = "idle"
              /\ game.result = "Ok"
              /\ game.last = "check")
    /\ (game.stopped /\ game.pc = "in_func") ~> (game.last = "present")
    /\ (game.stopped /\ game.pc # "idle") ~>
           (game.pc = "idle" /\ game.result = "Ok")

C24_Witness ==
    /\ game.stopped
    /\ ~game.cold
    /\ game.pc = "idle"
    /\ game.result = "Ok"
    /\ game.calls = 1
    /\ game.prev = "present"

\* C29 as stated: a run called after terminate invokes the callback zero
\* times and returns Ok(())
C29_StoppedRunReturnsOk ==
    game.cold /\ game.pc = "idle" => game.calls = 0 /\ game.result = "Ok"

\* C29: the stop flag is false after Game::new, is changed by terminate
\* only and only to true, and a run called with the flag set invokes the
\* callback zero times and returns Ok(()), unless bringing up SDL fails and
\* run returns that error
C29_StopFlag ==
    /\ ~Game_new.stopped
    /\ [][game.stopped => game'.stopped]_vars
    /\ [][game'.stopped # game.stopped =>
              game' = [game EXCEPT !.stopped = TRUE]]_vars
    /\ [](game.cold =>
              /\ game.calls = 0
              /\ game.pc \in {"idle", "check"}
              /\ game.pc = "idle" => game.result \in {"Ok", "Err"}
              /\ game.result = "Err" => game.last = "none")

C29_Witness ==
    /\ game.cold
    /\ game.pc = "idle"
    /\ game.result = "Ok"
    /\ game.runs = 2
    /\ game.calls = 0
    /\ game.last = "check"

\* the rectangle of the moved sprite and the one it had before the call
MovedRect == sprites[ret.i].rect

RectBefore == ret.before.rect

\* C25: up(v) takes v from the y-origin and leaves x alone, down(v) adds v
\* to y, left(v) takes v from the x-origin and leaves y alone, right(v)
\* adds v to x; down(v) right after up(v), and right(v) right after
\* left(v), give back the rectangle the sprite had before
C25_Directions ==
    /\ [](/\ ret.op = "up" =>
                 MovedRect = [RectBefore EXCEPT !.y = RectBefore.y - ret.vel]
          /\ ret.op = "down" =>
                 MovedRect = [RectBefore EXCEPT !.y = RectBefore.y + ret.vel]
          /\ ret.op = "left" =>
                 MovedRect = [RectBefore EXCEPT !.x = RectBefore.x - ret.vel]
          /\ ret.op = "right" =>
                 MovedRect = [RectBefore EXCEPT !.x = RectBefore.x + ret.vel])
    /\ [][(/\ ret.op = "up"
           /\ ret'.op = "down"
           /\ ret'.vel = ret.vel
           /\ ret' # ret) => sprites'[ret.i] = ret.before]_vars
    /\ [][(/\ ret.op = "left"
           /\ ret'.op = "right"
           /\ ret'.vel = ret.vel
           /\ ret' # ret) => sprites'[ret.i] = ret.before]_vars

C25_Witness ==
    /\ ret.op = "up"
    /\ ret.vel = 2
    /\ RectBefore.y = 1
    /\ MovedRect.y = -1
    /\ MovedRect.x = RectBefore.x

\* the sprite and the point of the last point check
CheckedSprite == sprites[ret.i]

\* the point lies inside the rectangle of the sprite
PointInRect ==
    /\ CheckedSprite.rect.x <= ret.point[1]
    /\ ret.point[1] < CheckedSprite.rect.x + CheckedSprite.rect.w
    /\ CheckedSprite.rect.y <= ret.point[2]
    /\ ret.point[2] < CheckedSprite.rect.y + CheckedSprite.rect.h

\* C28: for a sprite of width and height at least 1 and an integer point
\* inside its rectangle, check_for_collision_with_point returns true
C28_PointInsideCollides ==
    (/\ ret.op = "check_for_collision_with_point"
     /\ CheckedSprite.rect.w >= 1
     /\ CheckedSprite.rect.h >= 1
     /\ PointInRect) => ~ret.panic /\ ret.val

\* a point of the rectangle that is not its center
C28_Witness ==
    /\ ret.op = "check_for_collision_with_point"
    /\ PointInRect
    /\ CheckedSprite.rect.h = 3
    /\ ret.point[2] = CheckedSprite.rect.y
    /\ ~ret.panic
    /\ ret.val

\* the call recorded in r saw Left as first pressed button, saw the mouse on
\* the sprite
SawLeft(r) == first_button(r.m) = "Left"

SawOver(r) == r.coll

\* C26: f is called during the n-th clicked call (n >= 2) exactly when the
\* call before it saw Left as first pressed button with the mouse on the
\* sprite; f is never called during the first call, and at most once per
\* call
C26_CallbackOneCallLater ==
    [][(ret'.op = "clicked" /\ ret' # ret) =>
          /\ ret'.f_calls <= 1
          /\ ret'.n = 1 => ret'.f_calls = 0
          /\ ret'.n >= 2 =>
                 /\ ret.op = "clicked"
                 /\ ret.n = ret'.n - 1
                 /\ ret'.f_calls = 1 <=> (SawLeft(ret) /\ SawOver(ret))]_vars

C26_Witness ==
    /\ ret.op = "clicked"
    /\ ret.n = 2
    /\ ret.f_calls = 1
    /\ ~SawOver(ret)

\* C27: after every clicked call the stack holds at most one element: it is
\* PRESSED exactly when the call saw Left as first pressed button on the
\* sprite, HOVER exactly when it saw the mouse on the sprite without Left as
\* first pressed button, and empty otherwise
C27_StackFollowsLastCall ==
    /\ Len(button.actions) <= 1
    /\ ret.op = "clicked" =>
           /\ button.actions = <<"PRESSED">> <=> (SawLeft(ret) /\ SawOver(ret))
           /\ button.actions = <<"HOVER">> <=> (~SawLeft(ret) /\ SawOver(ret))
           /\ button.actions = <<>> <=> ~SawOver(ret)

C27_Witness ==
    /\ ret.op = "clicked"
    /\ ret.n = 3
    /\ ret.f_calls = 1
    /\ button.actions = <<"HOVER">>

====
